---- MODULE Spec2Model ----
(***************************************************************************)
(* Model of code-index-mcp's management layer:                             *)
(*   - indexer.WebServerManager (indexer/webserver.go): Start, Stop,       *)
(*     Status and the background serving goroutine;                        *)
(*   - indexer.IndexManager: IndexDirectory, DeleteIndex, Search and the   *)
(*     metadata registry, run by concurrent request handlers.              *)
(***************************************************************************)
EXTENDS Integers, Sequences, FiniteSets, TLC

(***************************************************************************)
(* Bounds of the web-server model.                                         *)
(***************************************************************************)
\* number of successful Start calls explored (one http.Server each)
MaxStarts == 2
\* TCP ports 1..MaxPort exist on the loopback interface; 0 asks for any
MaxPort == 2

Insts == 1..MaxStarts
Ports == 1..MaxPort
\* the nil *http.Server
NilServer == 0

VARIABLES
    \* ---- WebServerManager fields (webserver.go:16-23)
    mu,          \* sync.Mutex: "free", or "stop" while Stop waits in Shutdown
    server,      \* m.server: NilServer or the id of an http.Server
    port,        \* m.port
    running,     \* m.running
    startedAt,   \* m.startedAt (0 is the zero time.Time)
    \* ---- what the manager created
    nservers,    \* http.Server objects created so far (ids 1..nservers)
    lstate,      \* net.Listener of Start i: "none", "open" or "closed"
    lport,       \* the port listener i is bound to
    tpc,         \* goroutine of Start i: "none", "spawned", "loaded",
                 \* "serving", "errored", "handled", "closed", "panicked"
    tsrv,        \* the handle goroutine i read from m.server
    inShutdown,  \* http.Server k has had Shutdown called
    conns,       \* http.Server k has a connection with a request in flight
    crashed,     \* an unrecovered panic ended the process
    last,        \* the last response returned to a caller
    \* ---- the index storage directory (IndexManager.indexDir) on disk
    rootExists,  \* the storage directory exists
    files,       \* names of the *.zoekt shard files in it
    partial,     \* the shard files written by a build whose walk had failed
    metaFile,    \* metadata.json: [state: "missing" | "ok" | "corrupt", map]
    \* ---- the request handlers running IndexManager methods
    hpc,         \* handler's position: "idle", "i_readdir", "i_remove",
                 \* "i_build", "i_finish", "i_abort", "i_load", "i_save",
                 \* "d_remove", "d_load", "d_save", "s_query"
    hdir,        \* absPath of the running call ("" when none)
    htodo,       \* deleteIndexFiles: the ReadDir entries still to visit
    hmeta,       \* the map loadAllMetadata returned to this call
    hread,       \* Search: the shard files the searcher has loaded
    hquery,      \* Search: the caller's query text
    ires,        \* the last response an IndexManager call returned
    dirs,        \* the source directories the callers name
    lastOk,      \* history: the store as the last successful IndexDirectory
                 \* left it, while only calls for that directory followed
    \* ---- Search's result shaping (part_001:238-325)
    eres,        \* result.Files, the engine's file matches
    sopts,       \* the SearchOptions of the call
    sres,        \* the SearchResult built from them
    \* ---- truncateLine (part_001:329-337)
    tin,         \* its arguments s and maxLen
    tout,        \* its result
    \* ---- IndexDirectory's walk over a source tree (part_001:89-138)
    tree,        \* the names and contents of the source tree
    present,     \* the files of the tree that still exist
    wstack,      \* the listed entries the walk has still to visit
    wcur,        \* the file the callback is about to read
    docs,        \* the documents added to the builder
    wres         \* the walk: "idle", "walking", "ok", "err", "add"

webVars == <<mu, server, port, running, startedAt, nservers, lstate, lport,
             tpc, tsrv, inShutdown, conns, crashed, last>>

\* the manager's own fields
mgrState == <<server, port, running, startedAt>>

idxVars == <<rootExists, files, partial, metaFile, hpc, hdir, htodo, hmeta,
             hread, hquery, ires, dirs, lastOk>>

shapeVars == <<eres, sopts, sres>>

truncVars == <<tin, tout>>

walkVars == <<tree, present, wstack, wcur, docs, wres>>

\* the state of the functions examined on their own
fnVars == <<shapeVars, truncVars, walkVars>>

vars == <<webVars, idxVars, fnVars>>

NoResp == [op |-> "none", err |-> "", running |-> FALSE, port |-> 0, startedAt |-> 0]

Resp(op, err, r, p, t) ==
    [op |-> op, err |-> err, running |-> r, port |-> p, startedAt |-> t]

\* NewWebServerManager: every field is the zero value
WebInit ==
    /\ mu = "free"
    /\ server = NilServer
    /\ port = 0
    /\ running = FALSE
    /\ startedAt = 0
    /\ nservers = 0
    /\ lstate = [i \in Insts |-> "none"]
    /\ lport = [i \in Insts |-> 0]
    /\ tpc = [i \in Insts |-> "none"]
    /\ tsrv = [i \in Insts |-> NilServer]
    /\ inShutdown = [i \in Insts |-> FALSE]
    /\ conns = [i \in Insts |-> FALSE]
    /\ crashed = FALSE
    /\ last = NoResp

\* a port no open listener of this process holds
PortFree(p) == \A i \in Insts : ~(lstate[i] = "open" /\ lport[i] = p)

\* the ports net.Listen("127.0.0.1:p") can bind: p itself, or any free one for 0
Bindable(p) == IF p = 0 THEN {q \in Ports : PortFree(q)}
               ELSE {q \in {p} : PortFree(q)}

\* StartAlreadyRunning with the error text built from the requested port
\* instead of m.port
StartAlreadyRunning_ReportsRequested(p) ==
    /\ running
    /\ last' = Resp("start", "AlreadyRunning", FALSE, p, 0)
    /\ UNCHANGED <<mu, server, port, running, startedAt, nservers, lstate,
                   lport, tpc, tsrv, inShutdown, conns, crashed>>

\* Start refused because m.running is set (webserver.go:46-48)
StartAlreadyRunning(p) ==
    /\ running
    /\ last' = Resp("start", "AlreadyRunning", FALSE, port, 0)
    /\ UNCHANGED <<mu, server, port, running, startedAt, nservers, lstate,
                   lport, tpc, tsrv, inShutdown, conns, crashed>>

\* StartFails with the port and the running flag stored before net.Listen
\* is tried
StartFails_AssignsFirst(p) ==
    /\ ~running
    /\ \E e \in {"searcher", "template", "mux", "listen"} :
          last' = Resp("start", e, FALSE, 0, 0)
    /\ port' = p
    /\ running' = TRUE
    /\ UNCHANGED <<mu, server, startedAt, nservers, lstate,
                   lport, tpc, tsrv, inShutdown, conns, crashed>>

\* Start failing before serving: searcher, template, mux or listen error
\* (webserver.go:50-86); every path returns before a field is assigned
StartFails(p) ==
    /\ ~running
    /\ \E e \in {"searcher", "template", "mux", "listen"} :
          last' = Resp("start", e, FALSE, 0, 0)
    /\ UNCHANGED <<mu, server, port, running, startedAt, nservers, lstate,
                   lport, tpc, tsrv, inShutdown, conns, crashed>>

\* Start succeeding (webserver.go:82-115): bind, create the server, set the
\* fields, launch the goroutine, return the status
StartOk(p) ==
    /\ ~running
    /\ nservers < MaxStarts
    /\ \E q \in Bindable(p) :
          LET i == nservers + 1 IN
          /\ nservers' = i
          /\ lstate' = [lstate EXCEPT ![i] = "open"]
          /\ lport' = [lport EXCEPT ![i] = q]
          /\ server' = i
          /\ port' = q
          /\ running' = TRUE
          /\ startedAt' = i
          /\ tpc' = [tpc EXCEPT ![i] = "spawned"]
          /\ last' = Resp("start", "", TRUE, q, i)
    /\ UNCHANGED <<mu, tsrv, inShutdown, conns, crashed>>

\* WebServerManager.Start: the whole body runs under m.mu
Start(p) ==
    /\ ~crashed
    /\ mu = "free"
    /\ \/ StartAlreadyRunning(p)
       \/ StartFails(p)
       \/ StartOk(p)
    /\ UNCHANGED <<idxVars, fnVars>>

\* the goroutine evaluates m.server (webserver.go:102) without holding m.mu:
\* it sees whatever Start or Stop last stored there
TaskLoad(i) ==
    /\ ~crashed
    /\ tpc[i] = "spawned"
    /\ tsrv' = [tsrv EXCEPT ![i] = server]
    /\ tpc' = [tpc EXCEPT ![i] = "loaded"]
    /\ UNCHANGED <<mu, server, port, running, startedAt, nservers, lstate,
                   lport, inShutdown, conns, crashed, last>>
    /\ UNCHANGED <<idxVars, fnVars>>

\* the goroutine calls Serve(listener) on the handle it read (webserver.go:102):
\* a nil handle panics; a server already shut down returns ErrServerClosed and
\* closes the listener; otherwise the listener is served
TaskServe(i) ==
    /\ ~crashed
    /\ tpc[i] = "loaded"
    /\ IF tsrv[i] = NilServer
       THEN /\ crashed' = TRUE
            /\ tpc' = [tpc EXCEPT ![i] = "panicked"]
            /\ UNCHANGED lstate
       ELSE IF inShutdown[tsrv[i]]
       THEN /\ tpc' = [tpc EXCEPT ![i] = "closed"]
            /\ lstate' = [lstate EXCEPT ![i] = "closed"]
            /\ UNCHANGED crashed
       ELSE /\ tpc' = [tpc EXCEPT ![i] = "serving"]
            /\ UNCHANGED <<lstate, crashed>>
    /\ UNCHANGED <<mu, server, port, running, startedAt, nservers, lport,
                   tsrv, inShutdown, conns, last>>
    /\ UNCHANGED <<idxVars, fnVars>>

\* Serve returns an error other than ErrServerClosed (webserver.go:102): the
\* accept loop failed; Serve's deferred Close releases the listener
TaskServeError(i) ==
    /\ ~crashed
    /\ tpc[i] = "serving"
    /\ tpc' = [tpc EXCEPT ![i] = "errored"]
    /\ lstate' = [lstate EXCEPT ![i] = "closed"]
    /\ UNCHANGED <<mu, server, port, running, startedAt, nservers, lport,
                   tsrv, inShutdown, conns, crashed, last>>
    /\ UNCHANGED <<idxVars, fnVars>>

\* the goroutine's failure branch (webserver.go:103-106)
TaskHandleFail(i) ==
    /\ ~crashed
    /\ tpc[i] = "errored"
    /\ mu = "free"
    /\ running' = FALSE
    /\ tpc' = [tpc EXCEPT ![i] = "handled"]
    /\ UNCHANGED <<mu, server, port, startedAt, nservers, lstate, lport,
                   tsrv, inShutdown, conns, crashed, last>>
    /\ UNCHANGED <<idxVars, fnVars>>

\* the tasks whose listener is being served by http.Server k
ServedBy(k) == {i \in Insts : tpc[i] = "serving" /\ tsrv[i] = k}

\* a client's request is in flight on a connection of server k
ConnOpen(k) ==
    /\ ~crashed
    /\ ServedBy(k) # {}
    /\ ~conns[k]
    /\ conns' = [conns EXCEPT ![k] = TRUE]
    /\ UNCHANGED <<mu, server, port, running, startedAt, nservers, lstate,
                   lport, tpc, tsrv, inShutdown, crashed, last>>
    /\ UNCHANGED <<idxVars, fnVars>>

\* the in-flight requests of server k finish
ConnDrain(k) ==
    /\ ~crashed
    /\ conns[k]
    /\ conns' = [conns EXCEPT ![k] = FALSE]
    /\ UNCHANGED <<mu, server, port, running, startedAt, nservers, lstate,
                   lport, tpc, tsrv, inShutdown, crashed, last>>
    /\ UNCHANGED <<idxVars, fnVars>>

\* StopNotRunning with the fields cleared before the running check
StopNotRunning_ClearsFirst ==
    /\ ~crashed
    /\ mu = "free"
    /\ ~running
    /\ server' = NilServer
    /\ port' = 0
    /\ last' = Resp("stop", "NotRunning", FALSE, 0, 0)
    /\ UNCHANGED <<mu, running, startedAt, nservers, lstate,
                   lport, tpc, tsrv, inShutdown, conns, crashed>>
    /\ UNCHANGED <<idxVars, fnVars>>

\* Stop refused because m.running is clear (webserver.go:123-125)
StopNotRunning ==
    /\ ~crashed
    /\ mu = "free"
    /\ ~running
    /\ last' = Resp("stop", "NotRunning", FALSE, 0, 0)
    /\ UNCHANGED <<mu, server, port, running, startedAt, nservers, lstate,
                   lport, tpc, tsrv, inShutdown, conns, crashed>>
    /\ UNCHANGED <<idxVars, fnVars>>

\* Stop takes m.mu and calls m.server.Shutdown (webserver.go:120-130):
\* Shutdown marks the server, closes the listeners it serves (their Serve
\* calls return ErrServerClosed) and starts waiting for connections
StopBegin ==
    /\ ~crashed
    /\ mu = "free"
    /\ running
    /\ IF server = NilServer
       THEN /\ crashed' = TRUE
            /\ UNCHANGED <<mu, inShutdown, tpc, lstate>>
       ELSE /\ mu' = "stop"
            /\ inShutdown' = [inShutdown EXCEPT ![server] = TRUE]
            /\ tpc' = [i \in Insts |->
                         IF i \in ServedBy(server) THEN "closed" ELSE tpc[i]]
            /\ lstate' = [i \in Insts |->
                         IF i \in ServedBy(server) THEN "closed" ELSE lstate[i]]
            /\ UNCHANGED crashed
    /\ UNCHANGED <<server, port, running, startedAt, nservers, lport, tsrv,
                   conns, last>>
    /\ UNCHANGED <<idxVars, fnVars>>

\* Shutdown returned nil: the fields are cleared (webserver.go:134-138)
StopCleared ==
    /\ ~conns[server]
    /\ running' = FALSE
    /\ server' = NilServer
    /\ port' = 0
    /\ last' = Resp("stop", "", FALSE, 0, 0)
    /\ UNCHANGED startedAt

\* Shutdown returned the context's error after the 5 s bound: Stop returns
\* it at once (webserver.go:130-132)
StopTimedOut ==
    /\ conns[server]
    /\ last' = Resp("stop", "ShutdownFailed", FALSE, 0, 0)
    /\ UNCHANGED <<running, server, port, startedAt>>

\* Shutdown returns and Stop finishes, releasing m.mu
StopFinish ==
    /\ ~crashed
    /\ mu = "stop"
    /\ mu' = "free"
    /\ \/ StopCleared
       \/ StopTimedOut
    /\ UNCHANGED <<nservers, lstate, lport, tpc, tsrv, inShutdown, conns,
                   crashed>>
    /\ UNCHANGED <<idxVars, fnVars>>

\* WebServerManager.Status (webserver.go:142-156)
Status ==
    /\ ~crashed
    /\ mu = "free"
    /\ last' = IF ~running THEN Resp("status", "", FALSE, 0, 0)
               ELSE Resp("status", "", TRUE, port, startedAt)
    /\ UNCHANGED <<mu, server, port, running, startedAt, nservers, lstate,
                   lport, tpc, tsrv, inShutdown, conns, crashed>>
    /\ UNCHANGED <<idxVars, fnVars>>

WebNext ==
    \/ \E p \in {0} \cup Ports : Start(p)
    \/ StopNotRunning
    \/ StopBegin
    \/ StopFinish
    \/ Status
    \/ \E i \in Insts : TaskLoad(i)
    \/ \E i \in Insts : TaskServe(i)
    \/ \E i \in Insts : TaskServeError(i)
    \/ \E i \in Insts : TaskHandleFail(i)
    \/ \E k \in Insts : ConnOpen(k)
    \/ \E k \in Insts : ConnDrain(k)


(***************************************************************************)
(* The index store: identifiers, shard files and metadata.json.            *)
(***************************************************************************)
\* request handlers that may run IndexManager methods at the same time
NumHandlers == 2
\* successful IndexDirectory calls in a row that the history counts
MaxRuns == 2

Handlers == 1..NumHandlers

\* absolute source directories: two with the same base name
Dirs == {"/w/x", "/v/x"}

\* a third directory, named after the identifier of "/w/x"
ScopeDirs == Dirs \cup {"/w/x_h1"}

\* filepath.Base(sourceDir) with spaces replaced, as a sequence of text pieces
BaseName(d) == IF d = "/w/x_h1" THEN <<"x", "_", "h1">> ELSE <<"x">>

\* hex.EncodeToString(sha256(sourceDir)[:8]): a 16-digit piece that differs
\* for different paths
HashStr(d) == CASE d = "/w/x" -> "h1"
                [] d = "/v/x" -> "h2"
                [] OTHER -> "h3"

\* IndexManager.getIndexPrefix
getIndexPrefix(d) == BaseName(d) \o <<"_", HashStr(d)>>

\* the shard file the engine writes for repository name n
ShardName(n) == n \o <<"_", "v16.00000", ".zoekt">>

\* the temporary file the builder of handler h writes the shard to before
\* Finish renames it (the engine draws a fresh name for each builder)
TempName(n, h) == ShardName(n) \o <<".", ToString(h), ".tmp">>

\* strings.HasPrefix and strings.HasSuffix on piece sequences
HasPrefix(nm, pre) == Len(nm) >= Len(pre) /\ SubSeq(nm, 1, Len(pre)) = pre

HasSuffix(nm, suf) ==
    Len(nm) >= Len(suf) /\ SubSeq(nm, Len(nm) - Len(suf) + 1, Len(nm)) = suf

\* byte order of the pieces that can meet at the same place of two names
PieceRank(t) ==
    CASE t = ".zoekt" -> 0
      [] t = "_" -> 1
      [] t = "h1" -> 2
      [] t = "h2" -> 3
      [] t = "h3" -> 4
      [] t = "v16.00000" -> 5
      [] OTHER -> 6

RECURSIVE NameLess(_, _)
NameLess(a, b) ==
    IF a = <<>> THEN b # <<>>
    ELSE IF b = <<>> THEN FALSE
    ELSE IF Head(a) = Head(b) THEN NameLess(Tail(a), Tail(b))
    ELSE PieceRank(Head(a)) < PieceRank(Head(b))

\* os.ReadDir returns the entries sorted by file name
RECURSIVE SortNames(_)
SortNames(S) ==
    IF S = {} THEN <<>>
    ELSE LET m == CHOOSE x \in S : \A y \in S \ {x} : NameLess(x, y)
         IN <<m>> \o SortNames(S \ {m})

\* the entries deleteIndexFiles removes: regular files carrying the prefix
\* and the .zoekt suffix (part_001:430-431)
MatchingEntries(entries, d) ==
    {e \in entries : HasPrefix(e, getIndexPrefix(d)) /\ HasSuffix(e, <<".zoekt">>)}

EmptyMap == [x \in {} |-> ""]

\* IndexManager.loadAllMetadata: an unreadable or unparsable file is an
\* empty map
loadAllMetadata == IF metaFile.state = "ok" THEN metaFile.map ELSE EmptyMap

\* metadata[prefix] = &indexMetadata{SourceDir: sourceDir}
MapPut(m, k, v) == [x \in DOMAIN m \cup {k} |-> IF x = k THEN v ELSE m[x]]

\* delete(metadata, prefix)
MapDelete(m, k) == [x \in DOMAIN m \ {k} |-> m[x]]

\* the shard files a directory searcher loads: the *.zoekt entries
Shards(entries) == {e \in entries : HasSuffix(e, <<".zoekt">>)}

\* the repository names the engine can have been given
RepoNames == {getIndexPrefix(d) : d \in ScopeDirs}

\* the repository a shard file was built for
RepoOf(f) == CHOOSE n \in RepoNames : ShardName(n) = f

\* regexp.MatchString of an unanchored literal pattern: pat occurs in nm
Contains(nm, pat) ==
    \E i \in 0..(Len(nm) - Len(pat)) : SubSeq(nm, i + 1, i + Len(pat)) = pat

\* query texts: one word, and two words joined by the engine's "or"
Queries == {"t", "t or u"}

\* query.Parse of "repo:<prefix> <q>" (part_001:208, 219) and its evaluation
\* on a repository whose files hold both words: juxtaposition binds tighter
\* than "or", so "repo:p t or u" is (repo:p and t) or u; the repo atom is a
\* regular expression matched anywhere in the repository name
Selected(name, scope, q) ==
    \/ scope = ""
    \/ q = "t or u"
    \/ Contains(name, getIndexPrefix(scope))

\* the directory a file match is resolved against (part_001:252-260): the
\* SourceDir of the repository's record, "" when there is no record
BaseDir(meta, name) == IF name \in DOMAIN meta THEN meta[name] ELSE ""

\* the directories of the file matches Search returns
SearchHits(loaded, meta, scope, q) ==
    {BaseDir(meta, RepoOf(f)) : f \in {g \in loaded : Selected(RepoOf(g), scope, q)}}

NoRes == [op |-> "none", err |-> "", hits |-> {}]

\* the outcome of a call: err is "" for success
Res(op, e) == [op |-> op, err |-> e, hits |-> {}]

\* the outcome of a successful Search
SearchRes(hits) == [op |-> "search", err |-> "", hits |-> hits]

\* no successful IndexDirectory is remembered
NoLast == [dir |-> "", runs |-> 0, files |-> {}, partial |-> {}, map |-> EmptyMap]

\* NewIndexManager, over a storage directory that does not exist yet
StoreInit ==
    /\ rootExists = FALSE
    /\ files = {}
    /\ partial = {}
    /\ metaFile = [state |-> "missing", map |-> EmptyMap]
    /\ hpc = [h \in Handlers |-> "idle"]
    /\ hdir = [h \in Handlers |-> ""]
    /\ htodo = [h \in Handlers |-> <<>>]
    /\ hmeta = [h \in Handlers |-> EmptyMap]
    /\ hread = [h \in Handlers |-> {}]
    /\ hquery = [h \in Handlers |-> ""]
    /\ ires = NoRes
    /\ lastOk = NoLast

\* the callers name the two directories called x
IdxInit == StoreInit /\ dirs = Dirs

\* a call of handler h returns: its locals die, its response is recorded
Return(h, r) ==
    /\ hpc' = [hpc EXCEPT ![h] = "idle"]
    /\ hdir' = [hdir EXCEPT ![h] = ""]
    /\ htodo' = [htodo EXCEPT ![h] = <<>>]
    /\ hmeta' = [hmeta EXCEPT ![h] = EmptyMap]
    /\ hread' = [hread EXCEPT ![h] = {}]
    /\ hquery' = [hquery EXCEPT ![h] = ""]
    /\ ires' = r

Goto(h, pc) == hpc' = [hpc EXCEPT ![h] = pc]

(***************************************************************************)
(* Search's result shaping (part_001:185-195, 238-325), as a function of   *)
(* the engine's result and the options.                                    *)
(***************************************************************************)
\* file matches in an engine result
MaxEngineFiles == 3
\* line matches of one file
MaxMatches == 3
\* option values 0..MaxOpt are tried; 0 asks for the default
MaxOpt == 2

\* the defaults Search substitutes for values <= 0 (part_001:187-192)
DefaultMaxFiles == 20

DefaultMaxLinesPerFile == 3

Min(a, b) == IF a < b THEN a ELSE b

SeqsUpTo(S, n) == UNION {[1..k -> S] : k \in 0..n}

\* chunk.Content split at "\n": text lines and blank lines
ChunkContents == {<<"txt">>, <<"txt", "blank">>, <<"txt", "blank", "txt">>}

\* a zoekt.FileMatch: lm = len(LineMatches), chunks = ChunkMatches
FileMatches ==
    {[lm |-> n, chunks |-> <<>>] : n \in 1..MaxMatches}
    \cup {[lm |-> 0, chunks |-> <<c>>] : c \in ChunkContents}
    \cup {[lm |-> 0, chunks |-> << <<"txt">>, <<"txt", "blank">> >>]}

\* the SearchOptions a caller can pass
OptionValues ==
    [MaxFiles : 0..MaxOpt, MaxLinesPerFile : 0..MaxOpt, FilesOnly : BOOLEAN]

\* "Apply defaults for zero values" (part_001:186-195)
ApplyDefaults(o) ==
    [MaxFiles |-> IF o.MaxFiles <= 0 THEN DefaultMaxFiles ELSE o.MaxFiles,
     MaxLinesPerFile |-> IF o.MaxLinesPerFile <= 0 THEN DefaultMaxLinesPerFile
                         ELSE o.MaxLinesPerFile,
     FilesOnly |-> o.FilesOnly]

\* the lines of all chunks of a file, in order (part_001:285-287)
RECURSIVE Flatten(_)
Flatten(chunks) ==
    IF chunks = <<>> THEN <<>> ELSE Head(chunks) \o Flatten(Tail(chunks))

\* the lines the chunk loop does not skip (part_001:288-290)
NonBlank(lines) == Cardinality({i \in 1..Len(lines) : lines[i] # "blank"})

\* the rendered lines of sr.Lines
PathLine(i) == [kind |-> "path", file |-> i, n |-> 0]

MatchLine(i, k) == [kind |-> "match", file |-> i, n |-> k]

MoreLine(i, n) == [kind |-> "more", file |-> i, n |-> n]

SummaryLine(shown, total) == [kind |-> "summary", file |-> shown, n |-> total]

\* ShapeFile appending a line for every match of the file
ShapeFile_NoLineCap(i, fm, o) ==
    LET counted == IF fm.lm # 0 THEN fm.lm ELSE NonBlank(Flatten(fm.chunks))
        totalInFile == IF fm.lm # 0 THEN fm.lm ELSE Len(Flatten(fm.chunks))
    IN  [matches |-> counted,
         lines |-> [k \in 1..counted |-> MatchLine(i, k)]
                   \o (IF totalInFile > o.MaxLinesPerFile
                       THEN <<MoreLine(i, totalInFile - o.MaxLinesPerFile)>>
                       ELSE <<>>)]

\* one iteration of the loop over result.Files (part_001:245-317) for the
\* file at index i: the matches it adds to sr.TotalMatches and the lines it
\* appends
ShapeFile(i, fm, o) ==
    LET counted == IF fm.lm # 0 THEN fm.lm ELSE NonBlank(Flatten(fm.chunks))
        linesAdded == Min(counted, o.MaxLinesPerFile)
        totalInFile == IF fm.lm # 0 THEN fm.lm ELSE Len(Flatten(fm.chunks))
    IN  [matches |-> counted,
         lines |-> [k \in 1..linesAdded |-> MatchLine(i, k)]
                   \o (IF totalInFile > o.MaxLinesPerFile
                       THEN <<MoreLine(i, totalInFile - o.MaxLinesPerFile)>>
                       ELSE <<>>)]

\* the loop over result.Files from index i on, with the break at MaxFiles
\* and the continue of files-only mode
RECURSIVE ShapeFrom(_, _, _, _)
ShapeFrom(i, fs, o, acc) ==
    IF i > Len(fs) \/ i - 1 >= o.MaxFiles THEN acc
    ELSE IF o.FilesOnly
    THEN ShapeFrom(i + 1, fs, o,
                   [acc EXCEPT !.Lines = Append(@, PathLine(i))])
    ELSE LET f == ShapeFile(i, fs[i], o) IN
         ShapeFrom(i + 1, fs, o,
                   [TotalMatches |-> acc.TotalMatches + f.matches,
                    Lines |-> acc.Lines \o f.lines])

\* "Build compact output" (part_001:238-325)
BuildResult(fs, opts) ==
    LET o == ApplyDefaults(opts)
        body == ShapeFrom(1, fs, o, [TotalMatches |-> 0, Lines |-> <<>>])
    IN  [done |-> TRUE,
         TotalFiles |-> Len(fs),
         TotalMatches |-> body.TotalMatches,
         Lines |-> body.Lines \o
                   (IF Len(fs) > o.MaxFiles
                    THEN <<SummaryLine(o.MaxFiles, Len(fs))>> ELSE <<>>)]

NoResult == [done |-> FALSE, TotalFiles |-> 0, TotalMatches |-> 0, Lines |-> <<>>]

\* no result is being shaped
ShapeIdle ==
    /\ eres = <<>>
    /\ sopts = [MaxFiles |-> 0, MaxLinesPerFile |-> 0, FilesOnly |-> FALSE]
    /\ sres = NoResult

\* an engine result for some options: the engine returns at most
\* MaxDocDisplayCount = 2 * MaxFiles files (part_001:225-227)
ShapeInputs ==
    /\ sopts \in OptionValues
    /\ eres \in SeqsUpTo(FileMatches, MaxEngineFiles)
    /\ Len(eres) <= 2 * ApplyDefaults(sopts).MaxFiles
    /\ sres = NoResult

\* Search builds the SearchResult from the engine's result
Shape ==
    /\ ~sres.done
    /\ sres' = BuildResult(eres, sopts)
    /\ UNCHANGED <<eres, sopts>>
    /\ UNCHANGED <<webVars, idxVars, truncVars, walkVars>>

(***************************************************************************)
(* truncateLine (part_001:329-337), on byte strings.                       *)
(***************************************************************************)
\* longest content string
MaxStr == 6
\* largest maxLen
MaxLineLen == 5

Bytes == {"a", "b"}

\* truncateLine cutting at maxLen before it appends the ellipsis
truncateLine_KeepsMaxLen(s, maxLen) ==
    IF Len(s) <= maxLen THEN s
    ELSE IF maxLen <= 3 THEN SubSeq(s, 1, maxLen)
    ELSE SubSeq(s, 1, maxLen) \o <<".", ".", ".">>

\* truncateLine
truncateLine(s, maxLen) ==
    IF Len(s) <= maxLen THEN s
    ELSE IF maxLen <= 3 THEN SubSeq(s, 1, maxLen)
    ELSE SubSeq(s, 1, maxLen - 3) \o <<".", ".", ".">>

NoLine == [done |-> FALSE, s |-> <<>>]

\* no line is being truncated
TruncIdle ==
    /\ tin = [s |-> <<>>, maxLen |-> 1]
    /\ tout = NoLine

\* a content string and a positive maxLen (Search passes
\* opts.MaxLineLength after replacing values <= 0, part_001:193-195)
TruncInputs ==
    /\ tin \in [s : SeqsUpTo(Bytes, MaxStr), maxLen : 1..MaxLineLen]
    /\ tout = NoLine

\* Search renders a match line's content (part_001:277, 297)
Truncate ==
    /\ ~tout.done
    /\ tout' = [done |-> TRUE, s |-> truncateLine(tin.s, tin.maxLen)]
    /\ UNCHANGED tin
    /\ UNCHANGED <<webVars, idxVars, shapeVars, walkVars>>

(***************************************************************************)
(* IndexDirectory's walk (part_001:89-138) over a source tree: the root    *)
(* directory holds a file "a" and a directory "s", which holds a file "b"  *)
(* and a directory "t", which holds a file "c".  File names are sequences  *)
(* of text pieces.                                                         *)
(***************************************************************************)
RootNames == {<<"proj">>, <<"build">>, <<".", "cfg">>}

DirNames == {<<"pkg">>, <<"node_modules">>, <<".", "git">>}

FileNames == {<<"main", ".", "go">>, <<".", "env">>, <<"logo", ".", "PNG">>}

\* the file below the subdirectory: a readable text file
LibFile == [name |-> <<"lib", ".", "py">>, content |-> "text", mode |-> "r"]

\* the source trees examined
Trees ==
    [root : RootNames,
     a : [name : FileNames, content : {"text", "nul"}, mode : {"r", "none"}],
     s : DirNames,
     b : {LibFile},
     t : DirNames,
     c : {LibFile}]

WalkFiles == {"a", "b", "c"}

WalkDirs == {"s", "t"}

NameOf(n) == IF n \in WalkDirs THEN tree[n] ELSE tree[n].name

\* the directories between the root directory and node n, outermost first
DirsAbove(n) == CASE n \in {"a", "s"} -> <<>>
                  [] n \in {"b", "t"} -> <<"s">>
                  [] OTHER -> <<"s", "t">>

\* the entries of a directory of the tree ("r" is the root directory)
Children(dir) == CASE dir = "r" -> {"a", "s"}
                   [] dir = "s" -> {"b", "t"}
                   [] OTHER -> {"c"}

\* the path of a node, as the names from the root directory down
PathOf(n) ==
    <<tree.root>> \o [k \in 1..Len(DirsAbove(n)) |-> tree[DirsAbove(n)[k]]]
                 \o <<NameOf(n)>>

\* absPath, the root directory itself
AbsPath == <<tree.root>>

\* filepath.Rel(absPath, path) for a path below absPath
Rel(base, path) == SubSeq(path, Len(base) + 1, Len(path))

\* strings.HasPrefix(base, ".")
Hidden(name) == Head(name) = "."

\* isSkippedDir
isSkippedDir(name) ==
    name \in {<<"node_modules">>, <<"vendor">>, <<"__pycache__">>,
              <<"target">>, <<"build">>, <<"dist">>, <<".", "git">>,
              <<".", "svn">>, <<".", "hg">>, <<".", "idea">>,
              <<".", "vscode">>, <<"venv">>, <<".", "venv">>, <<"env">>,
              <<".", "env">>}

\* strings.ToLower on the extensions that occur
ToLower(t) == IF t = "PNG" THEN "png" ELSE t

\* filepath.Ext: the suffix from the last dot on, "" when there is none
Ext(name) ==
    IF Len(name) >= 2 /\ name[Len(name) - 1] = "."
    THEN <<".", ToLower(name[Len(name)])>> ELSE <<>>

\* isBinaryFile: the lower-cased extension is on the list
isBinaryFile(name) ==
    Ext(name) \in {<<".", e>> : e \in
        {"exe", "dll", "so", "dylib", "bin", "obj", "o", "a", "zip", "tar",
         "gz", "bz2", "7z", "rar", "png", "jpg", "jpeg", "gif", "bmp", "ico",
         "webp", "svg", "mp3", "mp4", "avi", "mov", "pdf", "doc", "docx",
         "xls", "xlsx", "ppt", "pptx", "class", "jar", "war", "pyc", "pyo",
         "wasm"}}

\* isBinaryContent: a null byte among the first 8192 bytes
isBinaryContent(content) == content = "nul"

\* byte order of the entry names of one directory
NameKey(name) ==
    CASE name = <<".", "env">> -> 1
      [] name = <<".", "git">> -> 2
      [] name = <<"lib", ".", "py">> -> 3
      [] name = <<"logo", ".", "PNG">> -> 4
      [] name = <<"main", ".", "go">> -> 5
      [] name = <<"node_modules">> -> 6
      [] OTHER -> 7

\* readDirNames: the entries of a directory that exist, sorted by name
RECURSIVE SortNodes(_)
SortNodes(S) ==
    IF S = {} THEN <<>>
    ELSE LET m == CHOOSE x \in S :
                     \A y \in S \ {x} : NameKey(NameOf(x)) < NameKey(NameOf(y))
         IN <<m>> \o SortNodes(S \ {m})

readDirNames(dir) ==
    SortNodes({n \in Children(dir) : n \in WalkDirs \/ n \in present})

\* no walk is under way
WalkIdle ==
    /\ tree = [root |-> <<"proj">>, a |-> LibFile, s |-> <<"pkg">>, b |-> LibFile,
               t |-> <<"pkg">>, c |-> LibFile]
    /\ present = {}
    /\ wstack = <<>>
    /\ wcur = "none"
    /\ docs = {}
    /\ wres = "idle"

\* a source tree with all its files in place, before the walk
WalkInputs ==
    /\ tree \in Trees
    /\ present = WalkFiles
    /\ wstack = <<>>
    /\ wcur = "none"
    /\ docs = {}
    /\ wres = "idle"

\* filepath.Walk on the root: Lstat, the listing of the root, then the
\* callback on the root itself (part_001:95-101); SkipDir from the callback
\* on the root ends the walk with nil
WalkRoot ==
    /\ wres = "idle"
    /\ IF Hidden(tree.root) \/ isSkippedDir(tree.root)
       THEN /\ wres' = "ok"
            /\ UNCHANGED wstack
       ELSE /\ wres' = "walking"
            /\ wstack' = readDirNames("r")
    /\ UNCHANGED <<tree, present, wcur, docs>>
    /\ UNCHANGED <<webVars, idxVars, shapeVars, truncVars>>

\* WalkVisit with a callback that returns nil for every directory
WalkVisit_NoPrune ==
    /\ wres = "walking"
    /\ wcur = "none"
    /\ wstack # <<>>
    /\ LET n == Head(wstack) IN
       IF n \in WalkDirs
       THEN /\ wstack' = readDirNames(n) \o Tail(wstack)
            /\ UNCHANGED <<wcur, wres>>
       ELSE IF n \notin present
       THEN /\ wres' = "err"
            /\ UNCHANGED <<wstack, wcur>>
       ELSE /\ wstack' = Tail(wstack)
            /\ wcur' = IF Hidden(NameOf(n)) \/ isBinaryFile(NameOf(n))
                       THEN "none" ELSE n
            /\ UNCHANGED wres
    /\ UNCHANGED <<tree, present, docs>>
    /\ UNCHANGED <<webVars, idxVars, shapeVars, truncVars>>

\* the walk reaches the next listed entry: Lstat, then the callback
\* (part_001:89-111).  An entry that is gone makes Lstat fail; the callback
\* is then called with that error and returns it, which ends the walk
WalkVisit ==
    /\ wres = "walking"
    /\ wcur = "none"
    /\ wstack # <<>>
    /\ LET n == Head(wstack) IN
       IF n \in WalkDirs
       THEN /\ wstack' = IF Hidden(tree[n]) \/ isSkippedDir(tree[n])
                         THEN Tail(wstack)
                         ELSE readDirNames(n) \o Tail(wstack)
            /\ UNCHANGED <<wcur, wres>>
       ELSE IF n \notin present
       THEN /\ wres' = "err"
            /\ UNCHANGED <<wstack, wcur>>
       ELSE /\ wstack' = Tail(wstack)
            /\ wcur' = IF Hidden(NameOf(n)) \/ isBinaryFile(NameOf(n))
                       THEN "none" ELSE n
            /\ UNCHANGED wres
    /\ UNCHANGED <<tree, present, docs>>
    /\ UNCHANGED <<webVars, idxVars, shapeVars, truncVars>>

\* the callback reads the file and adds it (part_001:113-137): a file that
\* cannot be read, or whose content is binary, is skipped; an error of
\* builder.Add ends the walk
WalkRead ==
    /\ wres = "walking"
    /\ wcur # "none"
    /\ wcur' = "none"
    /\ IF wcur \notin present \/ tree[wcur].mode # "r"
          \/ isBinaryContent(tree[wcur].content)
       THEN UNCHANGED <<docs, wres>>
       ELSE \/ /\ docs' = docs \cup {Rel(AbsPath, PathOf(wcur))}
               /\ UNCHANGED wres
            \/ /\ wres' = "add"
               /\ UNCHANGED docs
    /\ UNCHANGED <<tree, present, wstack>>
    /\ UNCHANGED <<webVars, idxVars, shapeVars, truncVars>>

\* every listed entry has been visited: filepath.Walk returns nil
WalkEnd ==
    /\ wres = "walking"
    /\ wcur = "none"
    /\ wstack = <<>>
    /\ wres' = "ok"
    /\ UNCHANGED <<tree, present, wstack, wcur, docs>>
    /\ UNCHANGED <<webVars, idxVars, shapeVars, truncVars>>

\* another process removes a file of the tree while the walk runs
Unlink(n) ==
    /\ wres = "walking"
    /\ n \in present
    /\ present' = present \ {n}
    /\ UNCHANGED <<tree, wstack, wcur, docs, wres>>
    /\ UNCHANGED <<webVars, idxVars, shapeVars, truncVars>>

\* the functions at rest
FnInit == ShapeIdle /\ TruncIdle /\ WalkIdle

\* the process right after handlers.init
Init == WebInit /\ IdxInit /\ FnInit

WebSpec == Init /\ [][WebNext]_vars

(***************************************************************************)
(* Scheduling: a runnable goroutine eventually runs, Shutdown returns      *)
(* within its 5 s bound, and sync.Mutex hands the lock to a goroutine that *)
(* keeps waiting for it (starvation mode).                                 *)
(***************************************************************************)
WebFairness ==
    /\ WF_vars(StopFinish)
    /\ \A i \in Insts : WF_vars(TaskLoad(i))
    /\ \A i \in Insts : WF_vars(TaskServe(i))
    /\ \A i \in Insts : SF_vars(TaskHandleFail(i))

FairWebSpec == WebSpec /\ WebFairness

(***************************************************************************)
(* Claims about the search-server supervisor.                              *)
(***************************************************************************)

\* the listeners that are bound and being served
Alive == {i \in Insts : lstate[i] = "open" /\ tpc[i] = "serving"}

\* C5: at most one search-server instance (a bound listener being served)
\* is alive at any time.
C5_AtMostOneInstance == Cardinality(Alive) <= 1

\* C6: no state that Status can observe (m.mu free) has the running flag set
\* while the current instance has no bound listener.  The listener counts as
\* present while its goroutine is still on its way to serve it, and the
\* window in which a failed goroutine waits for m.mu is not counted.
C6_RunningHasListener ==
    (~crashed /\ mu = "free" /\ running) =>
        /\ server # NilServer
        /\ \/ /\ lstate[server] = "open"
              /\ tpc[server] \in {"spawned", "loaded", "serving"}
           \/ tpc[server] = "errored"

\* C7: whenever Stop returns after calling Shutdown (m.mu goes from Stop's
\* hold to free), the running flag and the port are cleared, whether or not
\* Shutdown met its bound.
C7_StopAlwaysClears ==
    [][(mu = "stop" /\ mu' = "free") => (~running' /\ port' = 0)]_vars

\* C8: once the serving of a started server has ended with an unexpected
\* error, the supervisor eventually is Stopped (running flag clear, lock
\* free), so that a following Start is not refused with AlreadyRunning.
C8_FailureReturnsToStopped ==
    \A i \in Insts : (tpc[i] = "errored") ~> (~crashed /\ ~running /\ mu = "free")

\* C9: a Start that finds the running flag set answers AlreadyRunning with
\* the port of the running server and changes nothing: the manager's fields
\* and every listener, goroutine and server stay as they were.
C9_StartWhileRunningRefused ==
    [][(running /\ last' # last /\ last'.op = "start") =>
          /\ last'.err = "AlreadyRunning"
          /\ last'.port = port
          /\ UNCHANGED <<mgrState, mu, nservers, lstate, lport, tpc, tsrv,
                         inShutdown, conns, crashed>>]_vars

C9_Witness ==
    /\ last.op = "start"
    /\ last.err = "AlreadyRunning"
    /\ last.port = port
    /\ port # 0
    /\ running
    /\ lstate[server] = "open"

\* C10: a Stop that finds the running flag clear answers NotRunning and
\* changes nothing.
C10_StopWhileStoppedRefused ==
    [][(~running /\ mu = "free" /\ last' # last /\ last'.op = "stop") =>
          /\ last'.err = "NotRunning"
          /\ UNCHANGED <<mgrState, mu, nservers, lstate, lport, tpc, tsrv,
                         inShutdown, conns, crashed>>]_vars

\* a second Stop after a successful Stop of a started server
C10_Witness ==
    /\ last.op = "stop"
    /\ last.err = "NotRunning"
    /\ ~running
    /\ server = NilServer
    /\ nservers > 0

\* the server of the latest successful Start has neither been stopped nor
\* seen its serving end with an unexpected error
Started ==
    /\ nservers > 0
    /\ server = nservers
    /\ ~inShutdown[nservers]
    /\ tpc[nservers] \notin {"errored", "handled"}

\* the latest change of the manager was a successful Stop
Stopped == server = NilServer /\ nservers > 0 /\ inShutdown[nservers]

\* C11: a Status call made after a successful Start, with no Stop and no
\* unexpected end of that server's serving since, answers running=true with
\* the port its listener is bound to, which is not 0; a Status call made
\* after a successful Stop, with no Start since, answers running=false and
\* port 0.
C11_StatusFollowsLifecycle ==
    [][(last' # last /\ last'.op = "status") =>
          /\ Started => /\ last'.running
                        /\ last'.port = lport[nservers]
                        /\ last'.port # 0
          /\ Stopped => /\ ~last'.running
                        /\ last'.port = 0]_vars

\* Stop is inside Shutdown, waiting for the connections of the server
StopWaiting == ~crashed /\ mu = "stop"

\* C21: Status reads the manager's fields and changes none of them, and it
\* can return while a Stop is still waiting in Shutdown for the in-flight
\* connections.
C21_StatusNeverWaits ==
    /\ [][(last' # last /\ last'.op = "status") =>
             UNCHANGED <<mgrState, mu, nservers, lstate, lport, tpc, tsrv,
                         inShutdown, conns, crashed>>]_vars
    /\ [](StopWaiting => ENABLED Status)

\* C26: the failure branch of instance i's goroutine clears the running
\* flag only when instance i is still the current one: it never marks a
\* later instance stopped.
C26_FailureMarksOwnInstanceOnly ==
    [][\A i \in Insts :
          (tpc[i] = "errored" /\ tpc'[i] = "handled" /\ running /\ ~running') =>
              /\ nservers = i
              /\ server = i]_vars

\* C27: the goroutine Start number i spawned calls Serve on the http.Server
\* that Start created: never on a nil handle and never on the server of a
\* later Start.
C27_TaskServesOwnServer ==
    \A i \in Insts : tpc[i] \notin {"none", "spawned"} => tsrv[i] = i

\* the errors of a Start that fails before its server serves
StartErrors == {"searcher", "template", "mux", "listen"}

\* the latest answer of the manager is such a failed Start
StartFailed == last.op = "start" /\ last.err \in StartErrors

\* C28: a Start that fails with a searcher, template, mux or listen error
\* leaves running clear and port, start time, server handle, listeners and
\* goroutines as they were; as long as it is the latest answer the manager
\* is stopped, a Status call answers running=false, and a further Start can
\* succeed.
C28_FailedStartLeavesStopped ==
    /\ [][(last' # last /\ last'.op = "start" /\ last'.err \in StartErrors) =>
             /\ ~running'
             /\ UNCHANGED <<mgrState, mu, nservers, lstate, lport, tpc, tsrv,
                            inShutdown, conns, crashed>>]_vars
    /\ [][(StartFailed /\ last' # last /\ last'.op = "status") =>
             ~last'.running]_vars
    /\ []((StartFailed /\ ~crashed) =>
             /\ ~running
             /\ mu = "free"
             /\ ENABLED (Status /\ ~last'.running)
             /\ nservers < MaxStarts => ENABLED (Start(0) /\ running'))

\* a Start failed at net.Listen after an earlier server had been started
\* and stopped
C28_Witness ==
    /\ last.op = "start"
    /\ last.err = "listen"
    /\ ~running
    /\ server = NilServer
    /\ port = 0
    /\ nservers > 0
    /\ ~crashed

(***************************************************************************)
(* IndexManager methods, one action per step that touches the disk.  The   *)
(* methods take no lock: steps of different handlers interleave freely.    *)
(***************************************************************************)

\* the history keeps the last successful IndexDirectory only while no call
\* of handler h has failed since
KeepLast(h) == lastOk' = IF hpc'[h] = "idle" THEN NoLast ELSE lastOk

\* IndexDirectory up to MkdirAll (part_001:45-64): Stat of the source path,
\* then creation of the storage directory
IndexBegin(h, d) ==
    /\ hpc[h] = "idle"
    /\ \/ \E e \in {"NotFound", "NotADirectory"} :
             /\ Return(h, Res("index", e))
             /\ UNCHANGED rootExists
       \/ /\ ~rootExists
          /\ Return(h, Res("index", "mkdir"))
          /\ UNCHANGED rootExists
       \/ /\ rootExists' = TRUE
          /\ hdir' = [hdir EXCEPT ![h] = d]
          /\ Goto(h, "i_readdir")
          /\ UNCHANGED <<htodo, hmeta, hread, hquery, ires>>
    /\ lastOk' = IF hpc'[h] = "idle" \/ lastOk.dir # d THEN NoLast ELSE lastOk
    /\ UNCHANGED <<files, partial, metaFile, dirs>>
    /\ UNCHANGED <<webVars, fnVars>>

\* deleteIndexFiles, the ReadDir (part_001:419-428): a missing directory is
\* no error and nothing is removed; otherwise the loop will visit the
\* matching entries of the listing in order
ListEntries(h, op, loop, next) ==
    \/ /\ ~rootExists
       /\ Goto(h, next)
       /\ UNCHANGED <<hdir, htodo, hmeta, hread, hquery, ires>>
    \/ /\ rootExists
       /\ Return(h, Res(op, "readdir"))
    \/ /\ rootExists
       /\ LET todo == SortNames(MatchingEntries(files, hdir[h])) IN
          /\ htodo' = [htodo EXCEPT ![h] = todo]
          /\ Goto(h, IF todo = <<>> THEN next ELSE loop)
          /\ UNCHANGED <<hdir, hmeta, hread, hquery, ires>>

\* deleteIndexFiles, one os.Remove of the loop (part_001:430-436): removing
\* a file that is no longer there, or that cannot be removed, is an error
RemoveEntry(h, op, next) ==
    LET f == Head(htodo[h]) IN
    \/ /\ f \in files
       /\ files' = files \ {f}
       /\ partial' = partial \ {f}
       /\ htodo' = [htodo EXCEPT ![h] = Tail(htodo[h])]
       /\ IF Tail(htodo[h]) = <<>> THEN Goto(h, next) ELSE UNCHANGED hpc
       /\ UNCHANGED <<hdir, hmeta, hread, hquery, ires>>
    \/ /\ Return(h, Res(op, "remove"))
       /\ UNCHANGED <<files, partial>>

\* IndexDirectory's deleteIndexFiles call (part_001:66-69)
IndexReadDir(h) ==
    /\ hpc[h] = "i_readdir"
    /\ ListEntries(h, "index", "i_remove", "i_build")
    /\ KeepLast(h)
    /\ UNCHANGED <<rootExists, files, partial, metaFile, dirs>>
    /\ UNCHANGED <<webVars, fnVars>>

IndexRemove(h) ==
    /\ hpc[h] = "i_remove"
    /\ RemoveEntry(h, "index", "i_build")
    /\ KeepLast(h)
    /\ UNCHANGED <<rootExists, metaFile, dirs>>
    /\ UNCHANGED <<webVars, fnVars>>

\* IndexBuild writing the directory's record before the documents are added
IndexBuild_SavesRecordFirst(h) ==
    /\ hpc[h] = "i_build"
    /\ \/ /\ Return(h, Res("index", "builder"))
          /\ UNCHANGED files
       \/ /\ \E next \in {"i_finish", "i_abort"} : Goto(h, next)
          /\ \/ UNCHANGED files
             \/ files' = files \cup {TempName(getIndexPrefix(hdir[h]), h)}
          /\ UNCHANGED <<hdir, htodo, hmeta, hread, hquery, ires>>
    /\ metaFile' = [state |-> "ok",
                    map |-> MapPut(loadAllMetadata, getIndexPrefix(hdir[h]),
                                   hdir[h])]
    /\ KeepLast(h)
    /\ UNCHANGED <<rootExists, partial, dirs>>
    /\ UNCHANGED <<webVars, fnVars>>

\* NewBuilder and the walk that adds the documents (part_001:71-138).  A
\* builder that cannot be created ends the call.  While documents are added
\* the builder may flush a full shard to its temporary file.  The walk ends
\* with nil ("i_finish") or with an error ("i_abort")
IndexBuild(h) ==
    /\ hpc[h] = "i_build"
    /\ \/ /\ Return(h, Res("index", "builder"))
          /\ UNCHANGED files
       \/ /\ \E next \in {"i_finish", "i_abort"} : Goto(h, next)
          /\ \/ UNCHANGED files
             \/ files' = files \cup {TempName(getIndexPrefix(hdir[h]), h)}
          /\ UNCHANGED <<hdir, htodo, hmeta, hread, hquery, ires>>
    /\ KeepLast(h)
    /\ UNCHANGED <<rootExists, partial, metaFile, dirs>>
    /\ UNCHANGED <<webVars, fnVars>>

\* IndexAbort returning the walk's error without the call of Finish
IndexAbort_NoFinish(h) ==
    /\ hpc[h] = "i_abort"
    /\ Return(h, Res("index", "walk"))
    /\ KeepLast(h)
    /\ UNCHANGED <<files, partial>>
    /\ UNCHANGED <<rootExists, metaFile, dirs>>
    /\ UNCHANGED <<webVars, fnVars>>

\* the walk failed (part_001:140-143): Finish is called and its result
\* dropped, then the walk's error is returned.  Finish writes the documents
\* added so far and renames the temporary file to the shard, or fails and
\* removes the temporary file
IndexAbort(h) ==
    /\ hpc[h] = "i_abort"
    /\ LET shard == ShardName(getIndexPrefix(hdir[h]))
           tmp == TempName(getIndexPrefix(hdir[h]), h) IN
       \/ /\ files' = (files \ {tmp}) \cup {shard}
          /\ partial' = partial \cup {shard}
       \/ /\ files' = files \ {tmp}
          /\ UNCHANGED partial
    /\ Return(h, Res("index", "walk"))
    /\ KeepLast(h)
    /\ UNCHANGED <<rootExists, metaFile, dirs>>
    /\ UNCHANGED <<webVars, fnVars>>

\* IndexFinish writing the shard without removing the temporary file
IndexFinish_KeepsTemp(h) ==
    /\ hpc[h] = "i_finish"
    /\ LET shard == ShardName(getIndexPrefix(hdir[h])) IN
       \/ /\ files' = files \cup {shard}
          /\ partial' = partial \ {shard}
          /\ Goto(h, "i_load")
          /\ UNCHANGED <<hdir, htodo, hmeta, hread, hquery, ires>>
       \/ /\ UNCHANGED files
          /\ Return(h, Res("index", "finish"))
          /\ UNCHANGED partial
    /\ KeepLast(h)
    /\ UNCHANGED <<rootExists, metaFile, dirs>>
    /\ UNCHANGED <<webVars, fnVars>>

\* the walk succeeded (part_001:145-148): Finish writes the shard, or fails,
\* removes the temporary file and its error is returned
IndexFinish(h) ==
    /\ hpc[h] = "i_finish"
    /\ LET shard == ShardName(getIndexPrefix(hdir[h]))
           tmp == TempName(getIndexPrefix(hdir[h]), h) IN
       \/ /\ files' = (files \ {tmp}) \cup {shard}
          /\ partial' = partial \ {shard}
          /\ Goto(h, "i_load")
          /\ UNCHANGED <<hdir, htodo, hmeta, hread, hquery, ires>>
       \/ /\ files' = files \ {tmp}
          /\ Return(h, Res("index", "finish"))
          /\ UNCHANGED partial
    /\ KeepLast(h)
    /\ UNCHANGED <<rootExists, metaFile, dirs>>
    /\ UNCHANGED <<webVars, fnVars>>

\* loadAllMetadata inside saveIndexMetadata or DeleteIndex
\* (part_001:414, part_001:374)
LoadMeta(h, next) ==
    /\ hmeta' = [hmeta EXCEPT ![h] = loadAllMetadata]
    /\ Goto(h, next)
    /\ UNCHANGED <<hdir, htodo, hread, hquery, ires>>

\* saveAllMetadata (part_001:404-410): os.WriteFile rewrites the whole file
\* from the caller's map; a failed write leaves the file as it was or
\* truncated, and fails at once when the directory does not exist
SaveMeta(h, op, m) ==
    \/ /\ rootExists
       /\ metaFile' = [state |-> "ok", map |-> m]
       /\ Return(h, Res(op, ""))
    \/ /\ Return(h, Res(op, "metadata"))
       /\ \/ UNCHANGED metaFile
          \/ /\ rootExists
             /\ metaFile.state # "missing"
             /\ metaFile' = [state |-> "corrupt", map |-> EmptyMap]

\* saveIndexMetadata (part_001:412-417), entered after Finish succeeded
IndexLoad(h) ==
    /\ hpc[h] = "i_load"
    /\ LoadMeta(h, "i_save")
    /\ KeepLast(h)
    /\ UNCHANGED <<rootExists, files, partial, metaFile, dirs>>
    /\ UNCHANGED <<webVars, fnVars>>

IndexSave(h) ==
    /\ hpc[h] = "i_save"
    /\ SaveMeta(h, "index", MapPut(hmeta[h], getIndexPrefix(hdir[h]), hdir[h]))
    /\ lastOk' = IF ires'.err # "" THEN NoLast
                 ELSE [dir |-> hdir[h],
                       runs |-> IF lastOk.dir # hdir[h] THEN 1
                                ELSE IF lastOk.runs < MaxRuns
                                THEN lastOk.runs + 1 ELSE MaxRuns,
                       files |-> files, partial |-> partial,
                       map |-> metaFile'.map]
    /\ UNCHANGED <<rootExists, files, partial, dirs>>
    /\ UNCHANGED <<webVars, fnVars>>

\* DeleteIndex up to the ReadDir of deleteIndexFiles (part_001:361-370)
DeleteBegin(h, d) ==
    /\ hpc[h] = "idle"
    /\ \/ /\ ~rootExists
          /\ hdir' = [hdir EXCEPT ![h] = d]
          /\ Goto(h, "d_load")
          /\ UNCHANGED <<htodo, hmeta, hread, hquery, ires>>
       \/ /\ rootExists
          /\ Return(h, Res("delete", "readdir"))
       \/ /\ rootExists
          /\ LET todo == SortNames(MatchingEntries(files, d)) IN
             /\ hdir' = [hdir EXCEPT ![h] = d]
             /\ htodo' = [htodo EXCEPT ![h] = todo]
             /\ Goto(h, IF todo = <<>> THEN "d_load" ELSE "d_remove")
             /\ UNCHANGED <<hmeta, hread, hquery, ires>>
    /\ lastOk' = NoLast
    /\ UNCHANGED <<rootExists, files, partial, metaFile, dirs>>
    /\ UNCHANGED <<webVars, fnVars>>

DeleteRemove(h) ==
    /\ hpc[h] = "d_remove"
    /\ RemoveEntry(h, "delete", "d_load")
    /\ UNCHANGED <<rootExists, metaFile, dirs, lastOk>>
    /\ UNCHANGED <<webVars, fnVars>>

\* DeleteIndex's metadata rewrite (part_001:372-377)
DeleteLoad(h) ==
    /\ hpc[h] = "d_load"
    /\ LoadMeta(h, "d_save")
    /\ UNCHANGED <<rootExists, files, partial, metaFile, dirs, lastOk>>
    /\ UNCHANGED <<webVars, fnVars>>

DeleteSave(h) ==
    /\ hpc[h] = "d_save"
    /\ SaveMeta(h, "delete", MapDelete(hmeta[h], getIndexPrefix(hdir[h])))
    /\ UNCHANGED <<rootExists, files, partial, dirs, lastOk>>
    /\ UNCHANGED <<webVars, fnVars>>

\* Search up to the parsed query (part_001:185-222): the directory searcher
\* loads every shard file of the storage directory
SearchOpen(h, scope, q) ==
    /\ hpc[h] = "idle"
    /\ \/ /\ ~rootExists
          /\ Return(h, Res("search", "load"))
       \/ /\ rootExists
          /\ Return(h, Res("search", "parse"))
       \/ /\ rootExists
          /\ hread' = [hread EXCEPT ![h] = Shards(files)]
          /\ hdir' = [hdir EXCEPT ![h] = scope]
          /\ hquery' = [hquery EXCEPT ![h] = q]
          /\ Goto(h, "s_query")
          /\ UNCHANGED <<htodo, hmeta, ires>>
    /\ UNCHANGED <<rootExists, files, partial, metaFile, dirs, lastOk>>
    /\ UNCHANGED <<webVars, fnVars>>

\* Search from the engine query to the return (part_001:224-326): the file
\* matches of the loaded shards, each resolved through the metadata read
\* now; the engine's answer over a shard that vanished meanwhile is not
\* defined
SearchFinish(h) ==
    /\ hpc[h] = "s_query"
    /\ \/ Return(h, SearchRes(SearchHits(hread[h], loadAllMetadata,
                                         hdir[h], hquery[h])))
       \/ /\ ~(hread[h] \subseteq files)
          /\ Return(h, Res("search", "search"))
    /\ UNCHANGED <<rootExists, files, partial, metaFile, dirs, lastOk>>
    /\ UNCHANGED <<webVars, fnVars>>

\* one step of the call handler h is running, or the start of a new call
HandlerStep(h) ==
    \/ \E d \in dirs : IndexBegin(h, d)
    \/ IndexReadDir(h)
    \/ IndexRemove(h)
    \/ IndexBuild(h)
    \/ IndexAbort(h)
    \/ IndexFinish(h)
    \/ IndexLoad(h)
    \/ IndexSave(h)
    \/ \E d \in dirs : DeleteBegin(h, d)
    \/ DeleteRemove(h)
    \/ DeleteLoad(h)
    \/ DeleteSave(h)
    \/ \E d \in dirs \cup {""}, q \in Queries : SearchOpen(h, d, q)
    \/ SearchFinish(h)

\* concurrent request handlers
IdxNext == \E h \in Handlers : HandlerStep(h)

IdxSpec == Init /\ [][IdxNext]_vars

\* one request at a time
SeqNext == HandlerStep(1)

SeqSpec == Init /\ [][SeqNext]_vars

\* one request at a time, over the three directories
ScopeInit == WebInit /\ StoreInit /\ dirs = ScopeDirs /\ FnInit

ScopeSpec == ScopeInit /\ [][SeqNext]_vars

(***************************************************************************)
(* Claims about the index store.                                           *)
(***************************************************************************)

\* no IndexManager call is in progress
AllIdle == \A h \in Handlers : hpc[h] = "idle"

\* the registry ListIndexes and Search would read now
Registry == loadAllMetadata

\* C1: whenever no call is in progress, every record of the metadata
\* registry has the shard file of its identifier on disk.
C1_RecordsHaveArtifacts ==
    AllIdle => \A n \in DOMAIN Registry : ShardName(n) \in files

\* handler h is between loadAllMetadata and saveAllMetadata
InMetaRewrite(h) == hpc[h] \in {"i_save", "d_save"}

\* C2: metadata rewrites of concurrent calls do not lose updates: a rewrite
\* that succeeds changes the record of its own identifier only, so every
\* record another call has committed, and every removal, is still in the
\* registry afterwards.
C2_NoLostUpdate ==
    [][\A h \in Handlers :
          (InMetaRewrite(h) /\ hpc'[h] = "idle" /\ ires'.err = "") =>
              \A n \in (DOMAIN Registry \cup DOMAIN Registry')
                          \ {getIndexPrefix(hdir[h])} :
                  (n \in DOMAIN Registry) <=> (n \in DOMAIN Registry')]_vars

\* handler h is inside the delete-old / build-new / commit sequence of
\* IndexDirectory, or inside DeleteIndex
InMutation(h) ==
    hpc[h] \in {"i_readdir", "i_remove", "i_build", "i_finish", "i_abort",
                "i_load", "i_save", "d_remove", "d_load", "d_save"}

\* C3: two IndexDirectory or DeleteIndex calls on the same directory are
\* never inside their mutation sequences at the same time.
C3_OneMutationPerIdentifier ==
    \A h, g \in Handlers :
        (h # g /\ InMutation(h) /\ InMutation(g)) =>
            getIndexPrefix(hdir[h]) # getIndexPrefix(hdir[g])

\* the loaded shard files a search with this scope answers from
Searched(h) ==
    IF hdir[h] = "" THEN hread[h]
    ELSE hread[h] \cap {ShardName(getIndexPrefix(hdir[h]))}

\* C4: between a search opening the index directory and finishing its
\* query, every shard file it answers from is still on disk.
C4_SearchKeepsItsShards ==
    \A h \in Handlers : hpc[h] = "s_query" => Searched(h) \subseteq files

(***************************************************************************)
(* The functions on their own: each specification starts from the inputs   *)
(* of one function and applies it.                                         *)
(***************************************************************************)
ShapeInit == WebInit /\ IdxInit /\ ShapeInputs /\ TruncIdle /\ WalkIdle

ShapeNext == Shape

ShapeSpec == ShapeInit /\ [][ShapeNext]_vars

TruncInit == WebInit /\ IdxInit /\ ShapeIdle /\ TruncInputs /\ WalkIdle

TruncNext == Truncate

TruncSpec == TruncInit /\ [][TruncNext]_vars

WalkInit == WebInit /\ IdxInit /\ ShapeIdle /\ TruncIdle /\ WalkInputs

WalkNext ==
    \/ WalkRoot
    \/ WalkVisit
    \/ WalkRead
    \/ WalkEnd
    \/ \E n \in WalkFiles : Unlink(n)

WalkSpec == WalkInit /\ [][WalkNext]_vars

(***************************************************************************)
(* Claims about re-indexing, deletion and failed builds.                   *)
(***************************************************************************)

\* the files of the storage directory that belong to repository name n: its
\* shard and the temporary files of its builders
Artifacts(entries, n) == {f \in entries : HasPrefix(f, ShardName(n))}

\* C12: when IndexDirectory(d) succeeds, the store holds exactly one shard
\* for d's identifier, a complete one, no other file of that identifier,
\* and one record mapping the identifier to d; and when the call before
\* it was a successful IndexDirectory(d) too, the shard files and the
\* registry are the same as that call left them.
C12_ReindexIsIdempotent ==
    [][\A h \in Handlers :
          (hpc[h] = "i_save" /\ hpc'[h] = "idle" /\ ires'.err = "") =>
              LET d == hdir[h]
                  n == getIndexPrefix(d) IN
              /\ Artifacts(files', n) = {ShardName(n)}
              /\ ShardName(n) \notin partial'
              /\ n \in DOMAIN Registry'
              /\ Registry'[n] = d
              /\ lastOk.dir = d =>
                    /\ files' = lastOk.files
                    /\ partial' = lastOk.partial
                    /\ Registry' = lastOk.map]_vars

\* "/w/x" has been indexed twice in a row, after another directory, and the
\* second call left the store as the first did
C12_Witness ==
    /\ AllIdle
    /\ lastOk.dir = "/w/x"
    /\ lastOk.runs = 2
    /\ files = lastOk.files
    /\ Registry = lastOk.map
    /\ Artifacts(files, getIndexPrefix("/w/x")) = {ShardName(getIndexPrefix("/w/x"))}
    /\ Cardinality(DOMAIN Registry) = 2

\* directory d has no record and no shard file
NotIndexed(d) ==
    /\ getIndexPrefix(d) \notin DOMAIN Registry
    /\ MatchingEntries(files, d) = {}

\* C13: DeleteIndex(d) for a directory that is not indexed returns no error
\* when the storage directory does not exist yet, and whenever it returns
\* no error it has left the registry, the shard files and the storage
\* directory as they were.
C13_DeleteUnindexedIsNoOp ==
    [][\A h \in Handlers :
          (hpc[h] = "d_save" /\ hpc'[h] = "idle" /\ NotIndexed(hdir[h])) =>
              /\ (~rootExists) => (ires'.err = "")
              /\ (ires'.err = "") =>
                    /\ Registry' = Registry
                    /\ files' = files
                    /\ rootExists' = rootExists]_vars

\* C14: when IndexDirectory ends because the builder, the walk or Finish
\* failed, it returns that error and no unfinished artifact of the
\* identifier (a temporary shard file of its builder) is left in the
\* storage directory; what Finish completed is a finalized shard.
C14_FailedBuildLeavesNoTemp ==
    [][\A h \in Handlers :
          (hpc[h] \in {"i_build", "i_finish", "i_abort"} /\ hpc'[h] = "idle") =>
              /\ ires'.op = "index"
              /\ ires'.err = (CASE hpc[h] = "i_build" -> "builder"
                                [] hpc[h] = "i_abort" -> "walk"
                                [] OTHER -> "finish")
              /\ {f \in files' : /\ HasPrefix(f, getIndexPrefix(hdir[h]))
                                  /\ HasSuffix(f, <<".tmp">>)} = {}]_vars

\* an IndexDirectory whose walk failed has returned, and the Finish it
\* called has completed the shard
C14_Witness ==
    /\ AllIdle
    /\ ires = Res("index", "walk")
    /\ partial # {}
    /\ \A f \in files : ~HasSuffix(f, <<".tmp">>)

\* the steps of IndexDirectory that come before saveIndexMetadata writes
BeforeRecord == {"i_readdir", "i_remove", "i_build", "i_finish", "i_abort",
                 "i_load"}

\* the errors IndexDirectory returns before it reaches saveIndexMetadata
EarlyErrors == {"NotFound", "NotADirectory", "mkdir", "readdir", "remove",
                "builder", "walk", "finish"}

\* C22: IndexDirectory writes the metadata file only in its last step, which
\* it reaches only through a Finish that wrote the directory's shard; every
\* earlier step, and so every call that returns an error of path validation,
\* directory creation, cleanup, builder creation, the walk or Finish, leaves
\* the metadata file exactly as it was.
C22_RecordOnlyAfterBuild ==
    [][\A h \in Handlers :
          /\ (hpc[h] \in BeforeRecord /\ hpc'[h] # hpc[h]) =>
                 metaFile' = metaFile
          /\ (hpc[h] = "idle" /\ hpc'[h] = "i_readdir") => metaFile' = metaFile
          /\ (AllIdle /\ AllIdle' /\ ires' # ires /\ ires'.op = "index") =>
                 /\ ires'.err \in EarlyErrors
                 /\ metaFile' = metaFile
          /\ (hpc[h] # "i_load" /\ hpc'[h] = "i_load") =>
                 LET shard == ShardName(getIndexPrefix(hdir[h])) IN
                 /\ hpc[h] = "i_finish"
                 /\ shard \in files' /\ shard \notin partial'
          /\ (hpc[h] # "i_save" /\ hpc'[h] = "i_save") => hpc[h] = "i_load"
          /\ (hpc[h] \in BeforeRecord \cup {"i_save"} /\ hpc'[h] = "idle"
                 /\ metaFile' # metaFile) => hpc[h] = "i_save"
          /\ (hpc[h] \in BeforeRecord /\ hpc'[h] = "idle") =>
                 ires'.err \in EarlyErrors]_vars

\* a call failed in Finish while the registry held a record, and the
\* registry still holds it
C22_Witness ==
    /\ AllIdle
    /\ ires = Res("index", "finish")
    /\ metaFile.state = "ok"
    /\ DOMAIN metaFile.map # {}

\* handler h is inside IndexDirectory or DeleteIndex
Mutating(h) == hpc[h] \in BeforeRecord \cup {"i_save", "d_remove", "d_load", "d_save"}

\* directory b is indexed: its record and its shard are in the store
Indexed(b) ==
    /\ getIndexPrefix(b) \in DOMAIN Registry
    /\ Registry[getIndexPrefix(b)] = b
    /\ ShardName(getIndexPrefix(b)) \in files

\* C24: a step of IndexDirectory(a) or DeleteIndex(a), made while no other
\* call runs, leaves the shard files and the record of every other indexed
\* directory b as they were (the step of a metadata write that fails is not
\* judged).
C24_OtherIndexesUntouched ==
    [][\A h \in Handlers : \A b \in dirs :
          (/\ Mutating(h)
           /\ \A g \in Handlers \ {h} : hpc[g] = "idle"
           /\ hdir[h] # b
           /\ Indexed(b)
           /\ ~(hpc'[h] = "idle" /\ ires'.err = "metadata")) =>
              LET n == getIndexPrefix(b) IN
              /\ Artifacts(files', n) = Artifacts(files, n)
              /\ (ShardName(n) \in partial') = (ShardName(n) \in partial)
              /\ n \in DOMAIN Registry'
              /\ Registry'[n] = b]_vars

(***************************************************************************)
(* Claims about Search.                                                    *)
(***************************************************************************)

\* the matches of a file that the loops count into sr.TotalMatches when
\* they reach it
TrueMatches(fm) == IF fm.lm # 0 THEN fm.lm ELSE NonBlank(Flatten(fm.chunks))

RECURSIVE SumMatches(_)
SumMatches(fs) ==
    IF fs = <<>> THEN 0 ELSE TrueMatches(Head(fs)) + SumMatches(Tail(fs))

\* C15: TotalFiles is the number of files of the engine result and
\* TotalMatches the number of matches of all of them, whatever MaxFiles,
\* MaxLinesPerFile and FilesOnly are.
C15_TotalsIgnoreTruncation ==
    sres.done =>
        /\ sres.TotalFiles = Len(eres)
        /\ sres.TotalMatches = SumMatches(eres)

\* the positions of sr.Lines holding lines of this kind for file i
LinesOf(i, kind) ==
    {k \in 1..Len(sres.Lines) :
        sres.Lines[k].kind = kind /\ sres.Lines[k].file = i}

\* C16: outside files-only mode, every emitted file has a "... and N more
\* matches" line exactly when it has more matches than MaxLinesPerFile,
\* and N is the number of its matches minus the match lines emitted for it.
C16_MoreMarkerIsExact ==
    (sres.done /\ ~sopts.FilesOnly) =>
        \A i \in 1..Min(Len(eres), ApplyDefaults(sopts).MaxFiles) :
            LET true == TrueMatches(eres[i])
                emitted == Cardinality(LinesOf(i, "match"))
                more == LinesOf(i, "more") IN
            /\ Cardinality(more) <= 1
            /\ (true > ApplyDefaults(sopts).MaxLinesPerFile) <=> (more # {})
            /\ \A k \in more : sres.Lines[k].n = true - emitted

\* the positions of sr.Lines that belong to a file: all but the summary
FileLines == {k \in 1..Len(sres.Lines) : sres.Lines[k].kind # "summary"}

\* C23: with the caps Search uses (the defaults 20 and 3 for values <= 0),
\* the lines of the result belong to the first MaxFiles files of the engine
\* result only, the lines follow the order of the files, no file has more
\* than MaxLinesPerFile match lines, and only the closing summary line
\* belongs to no file.
C23_OutputWithinCaps ==
    sres.done =>
        LET o == ApplyDefaults(sopts)
            shown == Min(Len(eres), o.MaxFiles) IN
        /\ \A k \in FileLines : sres.Lines[k].file \in 1..shown
        /\ \A k, l \in FileLines :
               k < l => sres.Lines[k].file <= sres.Lines[l].file
        /\ \A i \in 1..Len(eres) :
               Cardinality(LinesOf(i, "match")) <= o.MaxLinesPerFile
        /\ \A k \in 1..Len(sres.Lines) :
               sres.Lines[k].kind = "summary" => k = Len(sres.Lines)

\* a result with more files than MaxFiles whose first file has more matches
\* than MaxLinesPerFile has been shaped
C23_Witness ==
    /\ sres.done
    /\ ~sopts.FilesOnly
    /\ Len(eres) > ApplyDefaults(sopts).MaxFiles
    /\ TrueMatches(eres[1]) > ApplyDefaults(sopts).MaxLinesPerFile
    /\ LinesOf(1, "match") # {}

\* C17: the result of truncateLine(s, L) for L > 0 is at most L long: s
\* itself when len(s) <= L; the first L-3 bytes and "...", L bytes in all,
\* when len(s) > L > 3; the first L bytes when len(s) > L and L <= 3.
C17_TruncatedToMaxLen ==
    tout.done =>
        LET s == tin.s
            L == tin.maxLen
            out == tout.s IN
        /\ Len(out) <= L
        /\ (Len(s) <= L) => (out = s)
        /\ (Len(s) > L /\ L > 3) =>
              (out = SubSeq(s, 1, L - 3) \o <<".", ".", ".">> /\ Len(out) = L)
        /\ (Len(s) > L /\ L <= 3) => (out = SubSeq(s, 1, L))

\* a string longer than maxLen > 3 has been cut and given the ellipsis
C17_Witness ==
    /\ tout.done
    /\ tin.maxLen > 3
    /\ Len(tin.s) > tin.maxLen
    /\ Len(tout.s) = tin.maxLen
    /\ tout.s[Len(tout.s)] = "."

\* C18: a Search with a directory scope returns only file matches resolved
\* against that directory (or left unresolved for want of a record), for
\* every pair of indexed directories and every query.
C18_ScopedSearchStaysInScope ==
    [][\A h \in Handlers :
          (hpc[h] = "s_query" /\ hpc'[h] = "idle" /\ ires'.err = ""
           /\ hdir[h] # "") =>
              ires'.hits \subseteq {hdir[h], ""}]_vars

(***************************************************************************)
(* Claims about the walk.                                                  *)
(***************************************************************************)

\* file n exists, can be read, is not hidden, has no listed extension, no
\* null byte, and no hidden or listed directory between the root and it
Admissible(n) ==
    /\ n \in present
    /\ tree[n].mode = "r"
    /\ ~Hidden(tree[n].name)
    /\ ~isBinaryFile(tree[n].name)
    /\ ~isBinaryContent(tree[n].content)
    /\ \A k \in 1..Len(DirsAbove(n)) :
          LET d == tree[DirsAbove(n)[k]] IN ~Hidden(d) /\ ~isSkippedDir(d)

\* C19: when the walk has ended without error, every admissible file has
\* been added to the builder under its path relative to the root directory,
\* whatever the root directory is called.
C19_AdmissibleFilesIngested ==
    (wres = "ok") =>
        \A n \in WalkFiles : Admissible(n) => Rel(AbsPath, PathOf(n)) \in docs

\* C20: the walk never ends with an error because of one file: a file that
\* is unreadable or has been removed is skipped.
C20_FileProblemsNeverAbort == wres # "err"

\* the callback answers SkipDir for a directory of this name
Pruned(name) == Hidden(name) \/ isSkippedDir(name)

\* node n lies below a directory the callback answers SkipDir for, the root
\* directory included
BelowPruned(n) ==
    \/ Pruned(tree.root)
    \/ \E k \in 1..Len(DirsAbove(n)) : Pruned(tree[DirsAbove(n)[k]])

\* C25: the walk never lists for visiting, never reads and never adds to
\* the builder a node below a hidden or listed directory, at any depth;
\* and no hidden file, no file with a listed extension and no file with a
\* null byte in its first 8192 bytes is added to the builder.
C25_SkippedSubtreesNeverEntered ==
    /\ \A k \in 1..Len(wstack) : ~BelowPruned(wstack[k])
    /\ wcur # "none" => ~BelowPruned(wcur)
    /\ \A n \in WalkFiles :
          Rel(AbsPath, PathOf(n)) \in docs =>
              /\ ~BelowPruned(n)
              /\ ~Hidden(tree[n].name)
              /\ ~isBinaryFile(tree[n].name)
              /\ ~isBinaryContent(tree[n].content)

\* a walk has ended that added the root directory's file and met a listed
\* or hidden directory holding a file and an ordinary directory with a
\* file of its own
C25_Witness ==
    /\ wres = "ok"
    /\ Rel(AbsPath, PathOf("a")) \in docs
    /\ Pruned(tree.s)
    /\ ~Pruned(tree.t)
    /\ {"b", "c"} \subseteq present

====
